---- MODULE Spec2Model ----
(***************************************************************************)
(* A model of the DX11Starter frame loop: three first-person cameras       *)
(* (Camera.cpp), the per-frame Game::Update / Game::Draw pair and          *)
(* Game::OnResize (Game.cpp).                                              *)
(*                                                                         *)
(* Units.  Lengths are counted in thousandths of a world unit (the         *)
(* scripted animation moves in steps of 0.001).  The frame time dt is      *)
(* counted in ticks.  Camera angles are counted in units of which          *)
(* QuarterTurn make a right angle, and the basis vectors are evaluated at  *)
(* whole quarter turns, where sine and cosine are exact.  A matrix built   *)
(* by a DirectXMath constructor is represented by the arguments it was     *)
(* built from.                                                             *)
(*                                                                         *)
(* Transform, Input, GameEntity and the DXCore message loop are modelled    *)
(* from their documented contracts: Transform accumulates position and     *)
(* Euler angles, Input reports the keys and the cursor delta polled at     *)
(* the start of the frame, and DXCore runs Update then Draw once per       *)
(* frame and handles WM_SIZE between frames.  The frames enumerated are    *)
(* those in which the overlay's per-shape drag widgets (Game.cpp 244-263)  *)
(* are left alone, and window sizes are positive.                          *)
(***************************************************************************)
EXTENDS Integers, Sequences, FiniteSets, TLC

VARIABLES
    pc,             \* position in the DXCore loop: idle, polled, updated, drawn
    frames,         \* frames started so far
    input,          \* the Input snapshot of the current frame
    windowWidth,
    windowHeight,
    activeCamera,
    camera,         \* camera[0..2]
    shapes,         \* shapes[0..4]
    going,
    quitRequested,
    switches,       \* history: switch operations performed so far
    calls           \* history: the calls made in the current frame, in order

vars == <<pc, frames, input, windowWidth, windowHeight, activeCamera, camera,
          shapes, going, quitRequested, switches, calls>>

----------------------------------------------------------------------------
(* Bounds of the model *)

MaxFrames == 3
MaxCameraFrames == 2
MaxAnimFrames == 2010
QuarterTurn == 10

(* Program constants *)

NumCameras == 3
NumShapes == 5
StoredNear == 100
StoredFar == 1000000
ProjNear == 10
ProjFar == 1000000
AnimStep == 1
AnimLimit == 1000
SpinDegrees == 10
ScaleUp == 1001
ScaleDown == 999

CameraIds == 0 .. (NumCameras - 1)
ShapeIds == 0 .. (NumShapes - 1)

----------------------------------------------------------------------------
(* Vectors and DirectXMath *)

Vec(x, y, z) == <<x, y, z>>
VAdd(a, b) == <<a[1] + b[1], a[2] + b[2], a[3] + b[3]>>
Zero3 == <<0, 0, 0>>

Quadrant(angle) == (angle \div QuarterTurn) % 4
Cos4(angle) == <<1, 0, -1, 0>>[Quadrant(angle) + 1]
Sin4(angle) == <<0, 1, 0, -1>>[Quadrant(angle) + 1]

RotZ(v, a) == <<v[1] * Cos4(a) - v[2] * Sin4(a), v[1] * Sin4(a) + v[2] * Cos4(a), v[3]>>
RotX(v, a) == <<v[1], v[2] * Cos4(a) - v[3] * Sin4(a), v[2] * Sin4(a) + v[3] * Cos4(a)>>
RotY(v, a) == <<v[1] * Cos4(a) + v[3] * Sin4(a), v[2], v[3] * Cos4(a) - v[1] * Sin4(a)>>

\* XMVector3Rotate by XMQuaternionRotationRollPitchYaw(pitch, yaw, roll):
\* roll about Z, then pitch about X, then yaw about Y.
RotateByEuler(v, rot) == RotY(RotX(RotZ(v, rot[3]), rot[1]), rot[2])

RECURSIVE Gcd(_, _)
Gcd(a, b) == IF b = 0 THEN a ELSE Gcd(b, a % b)

\* (float)windowWidth / windowHeight, as a fraction in lowest terms
AspectRatio(w, h) == <<w \div Gcd(w, h), h \div Gcd(w, h)>>

\* float -> int conversion of num/den: truncation toward zero
TruncToInt(num, den) == IF num >= 0 THEN num \div den ELSE -((-num) \div den)

XMMatrixLookToLH(position, direction, up) ==
    [eye |-> position, dir |-> direction, up |-> up]

XMMatrixPerspectiveFovLH(fovY, aspect, nearZ, farZ) ==
    [fov |-> fovY, aspect |-> aspect, nearZ |-> nearZ, farZ |-> farZ]

----------------------------------------------------------------------------
(* Transform *)

\* scale[f] counts the applications of the factor f (in thousandths) to the
\* x and y scale, which start at 1: the scale is the product of (f/1000)^scale[f].
NewTransform ==
    [position |-> Zero3, rotation |-> Zero3, scale |-> [f \in {ScaleUp, ScaleDown} |-> 0]]
SetPosition(t, x, y, z) == [t EXCEPT !.position = Vec(x, y, z)]
MoveAbsolute(t, x, y, z) == [t EXCEPT !.position = VAdd(@, Vec(x, y, z))]
MoveRelative(t, x, y, z) ==
    [t EXCEPT !.position = VAdd(@, RotateByEuler(Vec(x, y, z), t.rotation))]
Rotate(t, p, y, r) == [t EXCEPT !.rotation = VAdd(@, Vec(p, y, r))]
Scale(t, sx, sy, sz) == [t EXCEPT !.scale[sx] = @ + 1]
GetForward(t) == RotateByEuler(Vec(0, 0, 1), t.rotation)

----------------------------------------------------------------------------
(* Camera.cpp *)

UpdateViewMatrix(c) ==
    [c EXCEPT !.viewMatrix =
        XMMatrixLookToLH(c.transform.position, GetForward(c.transform), Vec(0, 1, 0))]

UpdateProjectionMatrix(c, aspectRatio) ==
    [c EXCEPT !.projectionMatrix =
        XMMatrixPerspectiveFovLH(c.fov, aspectRatio, ProjNear, ProjFar)]

NewCamera(x, y, z, moveSpeed, mouseLookSpeed, fov, aspectRatio) ==
    LET c == [moveSpeed |-> moveSpeed,
              mouseLookSpeed |-> mouseLookSpeed,
              fov |-> fov,
              aspectRatio |-> aspectRatio,
              nearP |-> StoredNear,
              farP |-> StoredFar,
              transform |-> SetPosition(NewTransform, x, y, z),
              viewMatrix |-> XMMatrixLookToLH(Zero3, Zero3, Zero3),
              projectionMatrix |-> XMMatrixPerspectiveFovLH(0, <<0, 1>>, 0, 0)]
    IN  UpdateProjectionMatrix(UpdateViewMatrix(c), aspectRatio)

KeyDown(in, key) == key \in in.keys

\* The six movement lines of Camera::Update, in source order.
CameraMove(t, in, d) ==
    LET t1 == IF KeyDown(in, "W") THEN MoveRelative(t, 0, 0, d) ELSE t
        t2 == IF KeyDown(in, "A") THEN MoveRelative(t1, -d, 0, 0) ELSE t1
        t3 == IF KeyDown(in, "S") THEN MoveRelative(t2, 0, 0, -d) ELSE t2
        t4 == IF KeyDown(in, "D") THEN MoveRelative(t3, d, 0, 0) ELSE t3
        t5 == IF KeyDown(in, "Q") THEN MoveRelative(t4, 0, d, 0) ELSE t4
        t6 == IF KeyDown(in, "E") THEN MoveRelative(t5, 0, -d, 0) ELSE t5
    IN  t6

\* Mutant: the look is applied whether or not the left button is held.
CameraLookAlways(t, in, mouseLookSpeed) ==
    LET xDiff == TruncToInt(mouseLookSpeed[1] * in.mouseX, mouseLookSpeed[2])
        yDiff == TruncToInt(mouseLookSpeed[1] * in.mouseY, mouseLookSpeed[2])
    IN  Rotate(t, yDiff * in.dt, xDiff * in.dt, 0)

CameraLook(t, in, mouseLookSpeed) ==
    IF in.mouseLeft
    THEN LET xDiff == TruncToInt(mouseLookSpeed[1] * in.mouseX, mouseLookSpeed[2])
             yDiff == TruncToInt(mouseLookSpeed[1] * in.mouseY, mouseLookSpeed[2])
         IN  Rotate(t, yDiff * in.dt, xDiff * in.dt, 0)
    ELSE t

\* Mutant: the view matrix is not rebuilt at the end of Update.
CameraUpdateStaleView(c, in) ==
    LET moved == CameraMove(c.transform, in, c.moveSpeed * in.dt)
        turned == CameraLook(moved, in, c.mouseLookSpeed)
    IN  [c EXCEPT !.transform = turned]

\* Mutant: the look is applied before the movement.
CameraUpdateLookFirst(c, in) ==
    LET turned == CameraLook(c.transform, in, c.mouseLookSpeed)
        moved == CameraMove(turned, in, c.moveSpeed * in.dt)
    IN  UpdateViewMatrix([c EXCEPT !.transform = moved])

CameraUpdate(c, in) ==
    LET moved == CameraMove(c.transform, in, c.moveSpeed * in.dt)
        turned == CameraLook(moved, in, c.mouseLookSpeed)
    IN  UpdateViewMatrix([c EXCEPT !.transform = turned])

----------------------------------------------------------------------------
(* Game.cpp *)

\* Constructor arguments of the three cameras: position and move speed in
\* thousandths, mouseLookSpeed as a fraction, fov in units of pi/12.
CameraArgs ==
    <<[x |-> 10000, y |-> 0, z |-> -10000, moveSpeed |-> 5000, mouseLookSpeed |-> <<10, 1>>, fov |-> 6],
      [x |-> 0, y |-> 0, z |-> -10000, moveSpeed |-> 5000, mouseLookSpeed |-> <<10, 1>>, fov |-> 4],
      [x |-> -10000, y |-> 0, z |-> -10000, moveSpeed |-> 5000, mouseLookSpeed |-> <<10, 1>>, fov |-> 3]>>

InitialWindow == <<1280, 720>>

GameInit(w, h) ==
    [i \in CameraIds |->
        LET a == CameraArgs[i + 1]
        IN  NewCamera(a.x, a.y, a.z, a.moveSpeed, a.mouseLookSpeed, a.fov, AspectRatio(w, h))]

CreateGeometry == [i \in ShapeIds |-> NewTransform]

\* Mutant: the loop stops one camera short.
OnResizeOffByOne(cams, w, h) ==
    [i \in CameraIds |->
        IF i < NumCameras - 1 THEN UpdateProjectionMatrix(cams[i], AspectRatio(w, h))
        ELSE cams[i]]

OnResize(cams, w, h) ==
    [i \in CameraIds |-> UpdateProjectionMatrix(cams[i], AspectRatio(w, h))]

Call(op, entity, cam) == [op |-> op, entity |-> entity, cam |-> cam]

\* Mutant: the index is clamped at the last camera instead of wrapping.
SwitchCameraClamped(i) == IF i + 1 < NumCameras THEN i + 1 ELSE i

SwitchCamera(i) == (i + 1) % NumCameras


\* Mutant: the turning point is tested with < instead of <=.
AnimateStrictLimit(shp, gng, dt) ==
    LET x == shp[0].position[1]
        forth == x < AnimLimit /\ gng
        back == ~forth /\ x > 0
        going1 == IF forth THEN gng ELSE IF back THEN FALSE ELSE TRUE
        d == IF forth THEN AnimStep ELSE IF back THEN -AnimStep ELSE 0
        s2 == IF ~going1 THEN Scale(shp[2], ScaleDown, ScaleDown, 1000)
              ELSE Scale(shp[2], ScaleUp, ScaleUp, 1000)
    IN  [shapes |-> [i \in ShapeIds |->
                        CASE i = 0 -> MoveAbsolute(shp[0], d, d, 0)
                          [] i = 1 -> Rotate(shp[1], 0, 0, dt * SpinDegrees)
                          [] i = 2 -> s2
                          [] i = 3 -> Rotate(shp[3], 0, 0, dt * SpinDegrees)
                          [] OTHER -> MoveAbsolute(shp[4], -d, -d, 0)],
         going |-> going1]

\* Game::Update lines 281-308: the scripted translation, scale and rotation.
Animate(shp, gng, dt) ==
    LET x == shp[0].position[1]
        forth == x <= AnimLimit /\ gng
        back == ~forth /\ x > 0
        going1 == IF forth THEN gng ELSE IF back THEN FALSE ELSE TRUE
        d == IF forth THEN AnimStep ELSE IF back THEN -AnimStep ELSE 0
        s0 == MoveAbsolute(shp[0], d, d, 0)
        s4 == MoveAbsolute(shp[4], -d, -d, 0)
        s2 == IF ~going1 THEN Scale(shp[2], ScaleDown, ScaleDown, 1000)
              ELSE Scale(shp[2], ScaleUp, ScaleUp, 1000)
        s3 == Rotate(shp[3], 0, 0, dt * SpinDegrees)
        s1 == Rotate(shp[1], 0, 0, dt * SpinDegrees)
    IN  [shapes |-> [i \in ShapeIds |->
                        CASE i = 0 -> s0 [] i = 1 -> s1 [] i = 2 -> s2
                          [] i = 3 -> s3 [] OTHER -> s4],
         going |-> going1]

\* Mutant: the camera is advanced before the scripted animation.
GameUpdateCameraFirst(active, cams, shp, gng, in) ==
    LET a1 == IF in.button THEN SwitchCamera(active) ELSE active
        a2 == IF in.pressC THEN SwitchCamera(a1) ELSE a1
        cam == CameraUpdate(cams[a2], in)
        anim == Animate(shp, gng, in.dt)
    IN  [activeCamera |-> a2,
         shapes |-> anim.shapes,
         going |-> anim.going,
         camera |-> [cams EXCEPT ![a2] = cam],
         quit |-> KeyDown(in, "ESC"),
         calls |-> (IF in.button THEN <<Call("SwitchCamera", -1, a1)>> ELSE <<>>)
                   \o (IF in.pressC THEN <<Call("SwitchCamera", -1, a2)>> ELSE <<>>)
                   \o <<Call("CameraUpdate", -1, a2), Call("Animate", -1, -1)>>]

\* Mutant: the 'C' key is handled after the camera update.
GameUpdateSwitchLate(active, cams, shp, gng, in) ==
    LET a1 == IF in.button THEN SwitchCamera(active) ELSE active
        anim == Animate(shp, gng, in.dt)
        cam == CameraUpdate(cams[a1], in)
        a2 == IF in.pressC THEN SwitchCamera(a1) ELSE a1
    IN  [activeCamera |-> a2,
         shapes |-> anim.shapes,
         going |-> anim.going,
         camera |-> [cams EXCEPT ![a1] = cam],
         quit |-> KeyDown(in, "ESC"),
         calls |-> (IF in.button THEN <<Call("SwitchCamera", -1, a1)>> ELSE <<>>)
                   \o <<Call("Animate", -1, -1), Call("CameraUpdate", -1, a1)>>
                   \o (IF in.pressC THEN <<Call("SwitchCamera", -1, a2)>> ELSE <<>>)]

\* Mutant: every camera is advanced, not only the active one.
GameUpdateAllCameras(active, cams, shp, gng, in) ==
    LET a1 == IF in.button THEN SwitchCamera(active) ELSE active
        a2 == IF in.pressC THEN SwitchCamera(a1) ELSE a1
        anim == Animate(shp, gng, in.dt)
    IN  [activeCamera |-> a2,
         shapes |-> anim.shapes,
         going |-> anim.going,
         camera |-> [i \in CameraIds |-> CameraUpdate(cams[i], in)],
         quit |-> KeyDown(in, "ESC"),
         calls |-> (IF in.button THEN <<Call("SwitchCamera", -1, a1)>> ELSE <<>>)
                   \o (IF in.pressC THEN <<Call("SwitchCamera", -1, a2)>> ELSE <<>>)
                   \o <<Call("Animate", -1, -1), Call("CameraUpdate", -1, a2)>>]

\* Game::Update as a function of the game state and the frame's input.
GameUpdate(active, cams, shp, gng, in) ==
    LET a1 == IF in.button THEN SwitchCamera(active) ELSE active
        a2 == IF in.pressC THEN SwitchCamera(a1) ELSE a1
        anim == Animate(shp, gng, in.dt)
        cam == CameraUpdate(cams[a2], in)
    IN  [activeCamera |-> a2,
         shapes |-> anim.shapes,
         going |-> anim.going,
         camera |-> [cams EXCEPT ![a2] = cam],
         quit |-> KeyDown(in, "ESC"),
         calls |-> (IF in.button THEN <<Call("SwitchCamera", -1, a1)>> ELSE <<>>)
                   \o (IF in.pressC THEN <<Call("SwitchCamera", -1, a2)>> ELSE <<>>)
                   \o <<Call("Animate", -1, -1), Call("CameraUpdate", -1, a2)>>]

\* Game::Draw: one Entity::Draw per shape, then Present.
GameDraw(active) ==
    [i \in 1 .. NumShapes |-> Call("EntityDraw", i - 1, active)] \o <<Call("Present", -1, -1)>>

----------------------------------------------------------------------------
(* Inputs of a frame *)

In(keys, mouseLeft, mouseX, mouseY, pressC, button, dt) ==
    [keys |-> keys, mouseLeft |-> mouseLeft, mouseX |-> mouseX, mouseY |-> mouseY,
     pressC |-> pressC, button |-> button, dt |-> dt]

NoInput == In({}, FALSE, 0, 0, FALSE, FALSE, 0)

MoveKeys == {"W", "A", "S", "D", "Q", "E"}

GameInputs ==
    { In(m[1], m[2], m[3], m[4], c, b, 1) :
        m \in {<<{}, FALSE, 0, 0>>, <<{"W"}, TRUE, 1, 0>>, <<{"D", "Q"}, FALSE, 1, -1>>},
        c \in BOOLEAN, b \in BOOLEAN }
    \cup { In({"S"}, TRUE, 0, 1, FALSE, FALSE, 2), In({"ESC"}, FALSE, 0, 0, FALSE, FALSE, 1) }

CameraInputs ==
    { In(k, TRUE, 1, 0, FALSE, FALSE, 1) : k \in SUBSET MoveKeys }
    \cup { In({"W"}, FALSE, 1, 1, FALSE, FALSE, 1),
           In({}, TRUE, -1, 1, FALSE, FALSE, 1),
           In({"S", "E", "D"}, TRUE, 0, 1, FALSE, FALSE, 2),
           In({"ESC", "W"}, FALSE, 0, 0, FALSE, TRUE, 1) }

AnimInputs == { In({}, FALSE, 0, 0, FALSE, FALSE, 1) }

AnimQuitInputs == { In({"ESC"}, FALSE, 0, 0, FALSE, FALSE, 1) }

WindowSizes == {<<1280, 720>>, <<800, 600>>, <<640, 360>>}
FewWindowSizes == {<<1280, 720>>, <<800, 600>>}

----------------------------------------------------------------------------
(* The frame loop *)

Init ==
    /\ pc = "idle"
    /\ frames = 0
    /\ input = NoInput
    /\ windowWidth = InitialWindow[1]
    /\ windowHeight = InitialWindow[2]
    /\ activeCamera = 0      \* the first camera is active at start
    /\ camera = GameInit(InitialWindow[1], InitialWindow[2])
    /\ shapes = CreateGeometry
    /\ going \in BOOLEAN    \* either initial value of the member
    /\ quitRequested = FALSE
    /\ switches = 0
    /\ calls = <<>>

\* Input::Update at the start of a frame
InputUpdate(Inputs, maxFrames) ==
    /\ pc = "idle"
    /\ ~quitRequested
    /\ frames < maxFrames
    /\ \E in \in Inputs : input' = in
    /\ frames' = frames + 1
    /\ calls' = <<>>
    /\ pc' = "polled"
    /\ UNCHANGED <<windowWidth, windowHeight, activeCamera, camera, shapes, going,
                   quitRequested, switches>>

Update ==
    /\ pc = "polled"
    /\ LET g == GameUpdate(activeCamera, camera, shapes, going, input)
       IN  /\ activeCamera' = g.activeCamera
           /\ camera' = g.camera
           /\ shapes' = g.shapes
           /\ going' = g.going
           /\ quitRequested' = (quitRequested \/ g.quit)
           /\ calls' = calls \o g.calls
           /\ switches' = switches + Cardinality({k \in 1 .. Len(g.calls) :
                                                    g.calls[k].op = "SwitchCamera"})
    /\ pc' = "updated"
    /\ UNCHANGED <<frames, input, windowWidth, windowHeight>>

Draw ==
    /\ pc = "updated"
    /\ calls' = calls \o GameDraw(activeCamera)
    /\ pc' = "drawn"
    /\ UNCHANGED <<frames, input, windowWidth, windowHeight, activeCamera, camera,
                   shapes, going, quitRequested, switches>>

\* Input::EndOfFrame
EndOfFrame ==
    /\ pc = "drawn"
    /\ input' = NoInput
    /\ pc' = "idle"
    /\ UNCHANGED <<frames, windowWidth, windowHeight, activeCamera, camera, shapes,
                   going, quitRequested, switches, calls>>

\* A WM_SIZE message, handled between frames
Resize(Sizes) ==
    /\ pc = "idle"
    /\ \E s \in Sizes :
        /\ s # <<windowWidth, windowHeight>>
        /\ windowWidth' = s[1]
        /\ windowHeight' = s[2]
        /\ camera' = OnResize(camera, s[1], s[2])
    /\ UNCHANGED <<pc, frames, input, activeCamera, shapes, going, quitRequested,
                   switches, calls>>

Next ==
    \/ InputUpdate(GameInputs, MaxFrames)
    \/ Update
    \/ Draw
    \/ EndOfFrame
    \/ Resize(WindowSizes)

Spec == Init /\ [][Next]_vars

NextCamera ==
    \/ InputUpdate(CameraInputs, MaxCameraFrames)
    \/ Update
    \/ Draw
    \/ EndOfFrame
    \/ Resize(FewWindowSizes)

SpecCamera == Init /\ [][NextCamera]_vars

NextAnim ==
    \/ InputUpdate(AnimInputs, MaxAnimFrames)
    \/ InputUpdate(AnimQuitInputs, MaxAnimFrames)
    \/ Update
    \/ Draw
    \/ EndOfFrame
    \/ Resize(FewWindowSizes)

SpecAnim == Init /\ [][NextAnim]_vars

----------------------------------------------------------------------------
(* Properties *)

IsUpdateStep == pc = "polled" /\ pc' = "updated"
Held(key) == IF key \in input.keys THEN 1 ELSE 0
CallsOf(op) == {k \in 1 .. Len(calls) : calls[k].op = op}
InitialPosition(i) == Vec(CameraArgs[i + 1].x, CameraArgs[i + 1].y, CameraArgs[i + 1].z)

\* C1: every switch operation replaces the active camera index i by
\* (i + 1) mod 3: with the index starting at 0, after n switch operations it is
\* n mod 3, so three consecutive switches visit 1, 2 and return to 0.
C1_SwitchCycles == activeCamera = switches % 3

C1_Witness == switches = 3 /\ activeCamera = 0 /\ pc = "updated"

\* C2: after any window-size change every camera's projection matrix, active
\* or not, is the one built with the aspect ratio windowWidth / windowHeight,
\* in every state and so at every Draw.
C2_ProjectionTracksWindow ==
    \A i \in CameraIds :
        /\ camera[i].projectionMatrix.aspect[1] * windowHeight
             = camera[i].projectionMatrix.aspect[2] * windowWidth
        /\ camera[i].projectionMatrix.fov = camera[i].fov

C2_Witness ==
    /\ pc = "drawn"
    /\ <<windowWidth, windowHeight>> = <<800, 600>>
    /\ activeCamera = 1
    /\ \A i \in CameraIds : camera[i].projectionMatrix.aspect = <<4, 3>>

\* C3 as stated: in every frame the camera update precedes the entity
\* animation, which precedes the five entity draws, which precede Present.
C3_CameraBeforeAnimation ==
    pc = "drawn" =>
        /\ \A c \in CallsOf("CameraUpdate") : \A a \in CallsOf("Animate") : c < a
        /\ \A a \in CallsOf("Animate") : \A d \in CallsOf("EntityDraw") : a < d
        /\ \A d \in CallsOf("EntityDraw") : \A p \in CallsOf("Present") : d < p

\* C3 amended: in every frame the entity animation precedes the camera
\* update, every call of the Update phase precedes every entity draw, and
\* Present comes last.
C3_AnimationBeforeCamera ==
    pc = "drawn" =>
        /\ CallsOf("Animate") # {} /\ CallsOf("CameraUpdate") # {}
        /\ \A a \in CallsOf("Animate") : \A c \in CallsOf("CameraUpdate") : a < c
        /\ \A u \in CallsOf("Animate") \cup CallsOf("CameraUpdate") \cup CallsOf("SwitchCamera") :
              \A d \in CallsOf("EntityDraw") : u < d
        /\ CallsOf("EntityDraw") # {}
        /\ CallsOf("Present") = {Len(calls)}
        /\ \A d \in CallsOf("EntityDraw") : d < Len(calls)

C3_Witness ==
    /\ pc = "drawn"
    /\ CallsOf("SwitchCamera") # {}
    /\ camera[activeCamera].transform.position # InitialPosition(activeCamera)
    /\ shapes[1].rotation # Zero3

\* C4: every camera's stored view matrix is the one computed from its
\* Transform's current position and forward vector with up (0,1,0), after
\* construction and after every Update, hence at every Draw.
C4_ViewFresh ==
    \A i \in CameraIds :
        /\ camera[i].viewMatrix.eye = camera[i].transform.position
        /\ camera[i].viewMatrix.dir = GetForward(camera[i].transform)
        /\ camera[i].viewMatrix.up = <<0, 1, 0>>

C4_Witness ==
    /\ pc = "drawn"
    /\ activeCamera = 1
    /\ camera[1].transform.position # InitialPosition(1)
    /\ camera[1].viewMatrix.dir # <<0, 0, 1>>
    /\ camera[0].transform.position # InitialPosition(0)

\* C5: construction fixes near = 0.01 and far = 1000 (positive, near < far)
\* and the projection matrix is built with the near/far values the camera
\* stores.
C5_StoredClipPlanesUsed ==
    \A i \in CameraIds :
        /\ camera[i].nearP = 10
        /\ camera[i].farP = 1000000
        /\ 0 < camera[i].nearP /\ camera[i].nearP < camera[i].farP
        /\ camera[i].projectionMatrix.nearZ = camera[i].nearP
        /\ camera[i].projectionMatrix.farZ = camera[i].farP

\* C6: Camera::Update(dt) displaces the camera by
\* moveSpeed * dt * (D - A, Q - E, W - S) along the local axes of the
\* orientation it had at the start of the call; opposite keys cancel and with
\* no key held the position is unchanged.
C6_Movement ==
    [][IsUpdateStep =>
        LET c == camera[activeCamera']
            d == c.moveSpeed * input.dt
            local == Vec(d * (Held("D") - Held("A")),
                         d * (Held("Q") - Held("E")),
                         d * (Held("W") - Held("S")))
        IN  camera'[activeCamera'].transform.position
              = VAdd(c.transform.position, RotateByEuler(local, c.transform.rotation))]_vars

C6_Witness ==
    /\ pc = "updated"
    /\ frames = 2
    /\ input.mouseLeft
    /\ camera[activeCamera].transform.rotation = <<0, 20, 0>>
    /\ input.keys = {"W", "S", "D"}
    /\ camera[activeCamera].transform.position # InitialPosition(activeCamera)

\* C7: Camera::Update(dt) changes the rotation only while the left mouse
\* button is held: then pitch advances by the vertical delta and yaw by the
\* horizontal delta, each scaled by mouseLookSpeed * dt, and roll is kept;
\* otherwise the rotation is unchanged whatever the delta.
C7_Look ==
    [][IsUpdateStep =>
        LET c == camera[activeCamera']
            m == c.mouseLookSpeed
            old == c.transform.rotation
            new == camera'[activeCamera'].transform.rotation
        IN  IF input.mouseLeft
            THEN /\ m[2] * (new[1] - old[1]) = m[1] * input.mouseY * input.dt
                 /\ m[2] * (new[2] - old[2]) = m[1] * input.mouseX * input.dt
                 /\ new[3] = old[3]
            ELSE new = old]_vars

C7_Witness ==
    /\ pc = "updated"
    /\ input.mouseLeft /\ input.mouseX = -1 /\ input.mouseY = 1
    /\ camera[activeCamera].transform.rotation = <<10, -10, 0>>

\* C8: in every Draw each of the five entities is drawn exactly once, all
\* against the active camera, and that camera is the one Camera::Update
\* advanced in the same frame: every switch precedes the camera update.
C8_DrawsActiveCamera ==
    pc = "drawn" =>
        /\ Cardinality(CallsOf("EntityDraw")) = 5
        /\ \A e \in 0 .. 4 :
              Cardinality({k \in CallsOf("EntityDraw") : calls[k].entity = e}) = 1
        /\ \A k \in CallsOf("EntityDraw") : calls[k].cam = activeCamera
        /\ Cardinality(CallsOf("CameraUpdate")) = 1
        /\ \A k \in CallsOf("CameraUpdate") : calls[k].cam = activeCamera
        /\ \A s \in CallsOf("SwitchCamera") : \A k \in CallsOf("CameraUpdate") : s < k

C8_Witness ==
    /\ pc = "drawn"
    /\ Cardinality(CallsOf("SwitchCamera")) = 2
    /\ activeCamera = 2
    /\ input.pressC

\* C9: no step changes the position, rotation or view matrix of a camera
\* other than the one active after the step's switches, so a camera switched
\* away from keeps its pose until it is active again.
C9_InactiveCamerasKeepPose ==
    [][\A i \in CameraIds :
          i # activeCamera' =>
             /\ camera'[i].transform = camera[i].transform
             /\ camera'[i].viewMatrix = camera[i].viewMatrix]_vars

C9_Witness ==
    /\ pc = "updated"
    /\ switches = 3
    /\ activeCamera = 0
    /\ camera[0].transform.position # InitialPosition(0)
    /\ camera[1].transform.position # InitialPosition(1)
    /\ camera[2].transform.position = InitialPosition(2)

====
